---- MODULE Spec2Model ----
(***************************************************************************)
(* Model of finance_complaint/component/data_ingestion.py: the             *)
(* DataIngestion component (window planning, download with retry and       *)
(* quarantine, merge into the parquet output, metadata write).             *)
(*                                                                         *)
(* Dates are <<year, month, day>> triples; the 'YYYY-MM-DD' strings the    *)
(* code builds keep exactly these three components in this order, so the   *)
(* lexicographic order of the triples is the order of the strings.         *)
(***************************************************************************)
EXTENDS Integers, Sequences, FiniteSets, TLC

\* ------------------------------------------------------------------ bounds
MaxRetry == 2          \* largest n_retry budget explored
MaxWindows == 2        \* largest number of planned windows explored
MaxCalls == 2          \* public calls made on the same filesystem

\* ------------------------------------------------------- the environment
\* Month ends of 2021, as pd.date_range(freq="m") produces them.
MonthEnds ==
  << <<2021, 1, 31>>, <<2021, 2, 28>>, <<2021, 3, 31>>, <<2021, 4, 30>>,
     <<2021, 5, 31>>, <<2021, 6, 30>>, <<2021, 7, 31>>, <<2021, 8, 31>>,
     <<2021, 9, 30>>, <<2021, 10, 31>>, <<2021, 11, 30>>, <<2021, 12, 31>> >>

\* Configured (from_date, to_date) ranges: none, six, four and three month
\* ends inside.
DateRanges ==
  { << <<2021, 1, 1>>, <<2021, 1, 15>> >>, << <<2021, 1, 1>>, <<2021, 7, 1>> >>,
    << <<2021, 1, 1>>, <<2021, 5, 10>> >>, << <<2021, 2, 28>>, <<2021, 5, 10>> >> }
MonthIntervals == {-1, 0, 1, 2, 3}

DateLT(a, b) ==
  \/ a[1] < b[1]
  \/ a[1] = b[1] /\ a[2] < b[2]
  \/ a[1] = b[1] /\ a[2] = b[2] /\ a[3] < b[3]

DateLE(a, b) == a = b \/ DateLT(a, b)

\* The JSON arrays the remote source answers with: objects with or without
\* the "_source" key.
JsonLists ==
  { << [key |-> "other", val |-> 2] >>,
    << [key |-> "_source", val |-> 1], [key |-> "other", val |-> 2],
       [key |-> "_source", val |-> 2] >> }

\* Response bodies.  kind "list": a JSON array of objects; kind "text": a
\* body that is not such an array (error page, JSON object), digits being
\* the runs of decimal digits in its text; kind "binary": bytes that are
\* not valid UTF-8.
ListBodies == { [kind |-> "list", elems |-> e, digits |-> <<>>] : e \in JsonLists }
TextBodies == { [kind |-> "text", elems |-> <<>>, digits |-> d] : d \in { <<>>, <<1>> } }
BinaryBodies == { [kind |-> "binary", elems |-> <<>>, digits |-> <<>>] }
Bodies == ListBodies \cup TextBodies \cup BinaryBodies
NoData == [kind |-> "none", elems |-> <<>>, digits |-> <<>>]

\* ---------------------------------------------------------------- state
VARIABLES
  from_date, to_date,       \* data_ingestion_config.from_date / to_date
  n_retry, n_month_interval,\* constructor arguments
  failed_download_urls,     \* self.failed_download_urls
  download_dir,             \* does data_ingestion_config.download_dir exist
  download_files,           \* file name -> JSON content, files of download_dir
  data_dir,                 \* does data_ingestion_config.data_dir exist
  failed_files,             \* file name -> raw body, files of failed_dir
  parquet,                  \* number of rows appended to the output file
  metadata,                 \* records of the metadata file
  pc, caller,               \* position of the single thread, public entry
  month_interval,           \* list of month ends of download_monthly_files
  index, download_url,      \* loop variable and descriptor being downloaded
  download_urls,            \* list built by download_monthly_files
  data,                     \* response handed to retry_download_data
  pending,                  \* files of the listing not yet merged
  file_path,                \* value returned by convert_files_to_parquet
  artifact, raised,         \* outcome of the public call
  counted,                  \* window whose download chain ran last (0: none)
  attempts, qwrites,        \* of window counted: requests.get calls, quarantine writes
  parse_failures,           \* of window counted: attempts whose body failed to parse
  slept,                    \* of window counted: seconds spent in time.sleep
  quarantined,              \* of window counted: body of the last quarantine write
  received,                 \* of window counted: JSON array body of its last response
  parquet_before,           \* rows of the output when the call or its merge began
  n_convert, n_write_metadata, exists_at_check, calls

vars ==
  << from_date, to_date, n_retry, n_month_interval, failed_download_urls,
     download_dir, download_files, data_dir, failed_files, parquet, metadata,
     pc, caller, month_interval, index, download_url, download_urls, data, pending, file_path,
     artifact, raised, counted, attempts, qwrites, parse_failures, slept, quarantined,
     received, parquet_before, n_convert, n_write_metadata,
     exists_at_check, calls >>

config == << from_date, to_date, n_retry, n_month_interval >>
filesystem == << download_dir, download_files, data_dir, failed_files, parquet, metadata >>
chain == << counted, attempts, qwrites, parse_failures, slept, quarantined, received >>
history == << chain, parquet_before, n_convert, n_write_metadata, exists_at_check >>

\* ------------------------------------------------------ pure functions
\* list(pd.date_range(start, end, freq="m").astype('str'))
date_range(start, end) ==
  SelectSeq(MonthEnds, LAMBDA d : DateLE(start, d) /\ DateLE(d, end))

\* len(range(start, stop, step)), step # 0
RangeLen(start, stop, step) ==
  IF step > 0
  THEN IF stop > start THEN (stop - start + step - 1) \div step ELSE 0
  ELSE IF start > stop THEN (start - stop + (-step) - 1) \div (-step) ELSE 0

\* Variant: the index is taken as a position counted from one.
WindowAt_shifted(mi, n, i) == [from |-> mi[(i - n) + 2], to |-> mi[i + 1]]

\* Variant: every window starts at the first boundary.
WindowAt_from_start(mi, n, i) == [from |-> mi[1], to |-> mi[i + 1]]

\* from_date, to_date = month_interval[index - n], month_interval[index]
\* (the list mi is 1-based here, the index is the code's).
WindowAt(mi, n, i) == [from |-> mi[(i - n) + 1], to |-> mi[i + 1]]

\* Variant: the loop stops one iteration early.
InLoop_stop_early(mi, n, i) == n # 0 /\ RangeLen(i + n, Len(mi), n) > 0

\* Does the loop over range(n, len(mi), n) have an iteration at index i
\* (i = n, or i reached from an iteration by adding n).
InLoop(mi, n, i) == n # 0 /\ RangeLen(i, Len(mi), n) > 0

\* Number of iterations of the loop over range(n, len(mi), n).
LoopLength(mi, n) == IF n = 0 THEN 0 ELSE RangeLen(n, Len(mi), n)

Url(w) == [date_received_max |-> w.to, date_received_min |-> w.from]
FileName(w) == << "file_name", w.from, w.to >>
os_path_join(dir, name) == << dir, name >>
\* os.path.join(self.data_ingestion_config.download_dir, file_name)
FilePath(w) == os_path_join("download_dir", FileName(w))
Basename(p) == p[2]
DownloadUrl(u, p, n) == [url |-> u, file_path |-> p, n_retry |-> n]
NoUrl == DownloadUrl(<<>>, <<>>, 0)
\* Variant: the output path is built under the json directory.
ConvertFilePath_json_dir == os_path_join("download_dir", "file_name")

\* file_path of convert_files_to_parquet: os.path.join(data_dir, output_file_name)
ConvertFilePath == os_path_join("data_dir", "file_name")
\* data_file_path of the artifact: os.path.join(data_dir, file_name)
ArtifactPath == os_path_join("data_dir", "file_name")
\* failed_file_path of retry_download_data
FailedFilePath(d) == os_path_join("failed_dir", Basename(d.file_path))
\* Variant: the budget counts as spent one retry late.
RetryExhausted_below_zero(d) == d.n_retry < 0

\* Variant: the budget counts as spent one retry early.
RetryExhausted_at_one(d) == d.n_retry <= 1

\* if download_url.n_retry == 0
RetryExhausted(d) == d.n_retry = 0
\* Variant: the retry keeps the budget it was given.
NextRetry_same_budget(d) == DownloadUrl(d.url, d.file_path, d.n_retry)

\* DownloadUrl(download_url.url, file_path=..., n_retry=download_url.n_retry - 1)
NextRetry(d) == DownloadUrl(d.url, d.file_path, d.n_retry - 1)

\* Variant: no element is filtered out.
Extract_unfiltered(elems) == [k \in 1..Len(elems) |-> elems[k].val]

\* list(map(lambda x: x["_source"], filter(lambda x: "_source" in x.keys(), ...)))
Extract(elems) ==
  LET kept == SelectSeq(elems, LAMBDA x : x.key = "_source")
  IN [k \in 1..Len(kept) |-> kept[k].val]

\* Variant: the removal does nothing.
Remove_nothing(f, k) == f

Remove(f, k) == [x \in (DOMAIN f) \ {k} |-> f[x]]
Put(f, k, v) == [x \in (DOMAIN f) \cup {k} |-> IF x = k THEN v ELSE f[x]]

\* ----------------------------------------------------------------- Init
Init ==
  /\ \E r \in DateRanges : from_date = r[1] /\ to_date = r[2]
  /\ n_retry \in 0..MaxRetry
  /\ n_month_interval \in MonthIntervals
  /\ LoopLength(date_range(from_date, to_date), n_month_interval) <= MaxWindows
  /\ failed_download_urls = <<>>
  /\ download_dir \in BOOLEAN
  /\ download_files = <<>>
  /\ data_dir = FALSE
  /\ failed_files = <<>>
  /\ parquet = 0
  /\ metadata = <<>>
  /\ pc = "idle"
  /\ caller = "none"
  /\ month_interval = <<>>
  /\ index = 0
  /\ download_url = NoUrl
  /\ download_urls = <<>>
  /\ data = NoData
  /\ pending = {}
  /\ file_path = <<>>
  /\ artifact = <<>>
  /\ raised = "none"
  /\ counted = 0
  /\ attempts = 0
  /\ qwrites = 0
  /\ parse_failures = 0
  /\ slept = 0
  /\ quarantined = NoData
  /\ received = NoData
  /\ parquet_before = 0
  /\ n_convert = 0
  /\ n_write_metadata = 0
  /\ exists_at_check = "unknown"
  /\ calls = 0

\* --------------------------------------------------------------- helpers
\* Variant: the exception is swallowed and the call returns.
Raise_swallowed(cause) ==
  /\ pc' = "done"
  /\ raised' = cause

\* An exception leaves every enclosing try block wrapped in
\* FinanceException and reaches the caller of the public method.
Raise(cause) ==
  /\ pc' = "failed"
  /\ raised' = cause

\* Head of the for loop of download_monthly_files over the list mi at
\* index i: the body up to the download_data call, or, past the range, the
\* return to initiate_data_ingestion.
LoopAt(mi, i) ==
  IF InLoop(mi, n_month_interval, i)
  THEN LET w == WindowAt(mi, n_month_interval, i)
           d == DownloadUrl(Url(w), FilePath(w), n_retry)
       IN /\ index' = i
          /\ download_url' = d
          /\ download_urls' = Append(download_urls, d)
          /\ pc' = "download_data"
  ELSE /\ pc' = "check"
       /\ UNCHANGED << index, download_url, download_urls >>

\* DataIngestionMetadata.write_metadata_info: one record appended.
write_metadata_info(records, f, t, p) ==
  Append(records, [from_date |-> f, to_date |-> t, data_file_path |-> p])

\* --------------------------------------------------------------- actions
\* DataIngestion(config, n_retry, n_month_interval).initiate_data_ingestion()
initiate_data_ingestion ==
  /\ pc \in {"idle", "done", "failed"}
  /\ calls < MaxCalls
  /\ calls' = calls + 1
  /\ caller' = "initiate_data_ingestion"
  /\ failed_download_urls' = <<>>
  /\ pc' = "download_monthly_files"
  /\ month_interval' = <<>>
  /\ index' = 0
  /\ download_url' = NoUrl
  /\ download_urls' = <<>>
  /\ data' = NoData
  /\ pending' = {}
  /\ file_path' = <<>>
  /\ artifact' = <<>>
  /\ raised' = "none"
  /\ counted' = 0
  /\ attempts' = 0
  /\ qwrites' = 0
  /\ parse_failures' = 0
  /\ slept' = 0
  /\ quarantined' = NoData
  /\ received' = NoData
  /\ parquet_before' = parquet
  /\ n_convert' = 0
  /\ n_write_metadata' = 0
  /\ exists_at_check' = "unknown"
  /\ UNCHANGED << config, filesystem >>

\* download_monthly_files up to the first download_data call
download_monthly_files ==
  /\ pc = "download_monthly_files"
  /\ month_interval' = date_range(from_date, to_date)
  /\ IF n_month_interval = 0
     THEN \* range() arg 3 must not be zero
          /\ Raise("ValueError")
          /\ UNCHANGED << index, download_url, download_urls >>
     ELSE /\ LoopAt(month_interval', n_month_interval)
          /\ UNCHANGED raised
  /\ UNCHANGED << config, filesystem, history, failed_download_urls, caller,
                  data, pending, file_path, artifact, calls >>

\* download_data(download_url): one requests.get and the write of the shard
download_data ==
  /\ pc = "download_data"
  /\ download_dir' = TRUE
  /\ counted' = index
  /\ attempts' = IF counted = index THEN attempts + 1 ELSE 1
  /\ qwrites' = IF counted = index THEN qwrites ELSE 0
  /\ slept' = IF counted = index THEN slept ELSE 0
  /\ quarantined' = IF counted = index THEN quarantined ELSE NoData
  /\ \/ \* requests.get raises (connection refused, timeout)
        /\ Raise("ConnectionError")
        /\ parse_failures' = IF counted = index THEN parse_failures ELSE 0
        /\ received' = NoData
        /\ UNCHANGED << download_files, data, index, download_url, download_urls >>
     \/ \E body \in Bodies :
          IF body.kind = "list"
          THEN /\ download_files' =
                    Put(download_files, Basename(download_url.file_path), Extract(body.elems))
               /\ LoopAt(month_interval, index + n_month_interval)
               /\ parse_failures' = IF counted = index THEN parse_failures ELSE 0
               /\ received' = body
               /\ UNCHANGED << data, raised >>
          ELSE /\ download_files' = Remove(download_files, Basename(download_url.file_path))
               /\ parse_failures' = IF counted = index THEN parse_failures + 1 ELSE 1
               /\ received' = NoData
               /\ data' = body
               /\ pc' = "retry_download_data"
               /\ UNCHANGED << index, download_url, download_urls, raised >>
  /\ UNCHANGED << config, data_dir, failed_files, parquet, metadata,
                  failed_download_urls, caller, month_interval, pending, file_path, artifact,
                  parquet_before, n_convert, n_write_metadata, exists_at_check, calls >>

\* retry_download_data(data, download_url)
retry_download_data ==
  /\ pc = "retry_download_data"
  /\ IF RetryExhausted(download_url)
     THEN /\ failed_download_urls' = Append(failed_download_urls, download_url)
          /\ LoopAt(month_interval, index + n_month_interval)
          /\ UNCHANGED << failed_files, qwrites, slept, quarantined, raised >>
     ELSE IF data.kind = "binary"
     THEN \* data.content.decode("utf-8") raises
          /\ Raise("UnicodeDecodeError")
          /\ UNCHANGED << failed_download_urls, failed_files, qwrites, slept,
                          quarantined, index, download_url, download_urls >>
     ELSE /\ slept' = IF Len(data.digits) > 0 THEN slept + data.digits[1] + 2 ELSE slept
          /\ failed_files' = Put(failed_files, Basename(FailedFilePath(download_url)), data)
          /\ qwrites' = qwrites + 1
          /\ quarantined' = data
          /\ download_url' = NextRetry(download_url)
          /\ pc' = "download_data"
          /\ UNCHANGED << failed_download_urls, index, download_urls, raised >>
  /\ data' = NoData
  /\ UNCHANGED << config, download_dir, download_files, data_dir, parquet, metadata,
                  caller, month_interval, pending, file_path, artifact, counted, attempts,
                  parse_failures, received, parquet_before, n_convert, n_write_metadata,
                  exists_at_check, calls >>

\* Variant: the merge stage is entered without looking at the directory.
DownloadDirExists_always == TRUE

\* Variant: the test is negated.
DownloadDirExists_negated == ~download_dir

\* os.path.exists(self.data_ingestion_config.download_dir)
DownloadDirExists == download_dir

\* Variant: the metadata is written before the merge.
check_download_dir_metadata_first ==
  /\ pc = "check"
  /\ exists_at_check' = IF download_dir THEN "yes" ELSE "no"
  /\ counted' = 0 /\ attempts' = 0 /\ qwrites' = 0 /\ parse_failures' = 0
  /\ slept' = 0 /\ quarantined' = NoData /\ received' = NoData
  /\ IF DownloadDirExists
     THEN /\ pc' = "write_metadata"
          /\ UNCHANGED artifact
     ELSE /\ pc' = "done"
          /\ artifact' = [data_file_path |-> ArtifactPath]
  /\ UNCHANGED << config, filesystem, failed_download_urls, caller, month_interval, index,
                  download_url, download_urls, data, pending, file_path, raised,
                  parquet_before, n_convert, n_write_metadata, calls >>

\* initiate_data_ingestion after download_monthly_files returned
check_download_dir ==
  /\ pc = "check"
  /\ exists_at_check' = IF download_dir THEN "yes" ELSE "no"
  /\ counted' = 0 /\ attempts' = 0 /\ qwrites' = 0 /\ parse_failures' = 0
  /\ slept' = 0 /\ quarantined' = NoData /\ received' = NoData
  /\ IF DownloadDirExists
     THEN /\ pc' = "convert_files_to_parquet"
          /\ UNCHANGED artifact
     ELSE /\ pc' = "done"
          /\ artifact' = [data_file_path |-> ArtifactPath]
  /\ UNCHANGED << config, filesystem, failed_download_urls, caller, month_interval, index,
                  download_url, download_urls, data, pending, file_path, raised,
                  parquet_before, n_convert, n_write_metadata, calls >>

\* Return of convert_files_to_parquet with value p.
ConvertReturn(p) ==
  /\ file_path' = p
  /\ pc' = IF caller = "initiate_data_ingestion" THEN "write_metadata" ELSE "idle"

\* convert_files_to_parquet up to the listing of json_data_dir
convert_files_to_parquet ==
  /\ pc = "convert_files_to_parquet"
  /\ n_convert' = n_convert + 1
  /\ parquet_before' = parquet
  /\ data_dir' = TRUE
  /\ IF ~download_dir
     THEN /\ ConvertReturn(ConvertFilePath)
          /\ UNCHANGED pending
     ELSE IF DOMAIN download_files = {}
     THEN /\ ConvertReturn(ConvertFilePath)
          /\ UNCHANGED pending
     ELSE /\ pending' = DOMAIN download_files
          /\ pc' = "merge"
          /\ UNCHANGED file_path
  /\ UNCHANGED << config, download_dir, download_files, failed_files, parquet,
                  metadata, failed_download_urls, caller, month_interval, index, download_url,
                  download_urls, data, artifact, raised, chain,
                  n_write_metadata, exists_at_check, calls >>

\* Variant: the write replaces the output.
AppendRows_overwrite(rows, df) == Len(df)

\* df.write.mode('append').parquet(file_path)
AppendRows(rows, df) == rows + Len(df)

\* One iteration of the loop over os.listdir(json_data_dir): the listing
\* order is the operating system's, the read or the append may fail.
merge_file ==
  /\ pc = "merge"
  /\ \E f \in pending :
       \/ /\ parquet' = AppendRows(parquet, download_files[f])
          /\ pending' = pending \ {f}
          /\ IF pending = {f}
             THEN ConvertReturn(ConvertFilePath)
             ELSE UNCHANGED << pc, file_path >>
          /\ UNCHANGED raised
       \/ /\ Raise("AnalysisException")
          /\ UNCHANGED << parquet, pending, file_path >>
  /\ UNCHANGED << config, download_dir, download_files, data_dir, failed_files,
                  metadata, failed_download_urls, caller, month_interval, index, download_url,
                  download_urls, data, artifact, history, calls >>

\* write_metadata(file_path) and the return of initiate_data_ingestion
write_metadata ==
  /\ pc = "write_metadata"
  /\ n_write_metadata' = n_write_metadata + 1
  /\ \/ /\ metadata' = write_metadata_info(metadata, from_date, to_date, file_path)
        /\ pc' = "done"
        /\ artifact' = [data_file_path |-> ArtifactPath]
        /\ UNCHANGED raised
     \/ /\ Raise("IOError")
        /\ UNCHANGED << metadata, artifact >>
  /\ UNCHANGED << config, download_dir, download_files, data_dir, failed_files,
                  parquet, failed_download_urls, caller, month_interval, index, download_url,
                  download_urls, data, pending, file_path, chain, parquet_before,
                  n_convert, exists_at_check, calls >>

\* convert_files_to_parquet() called directly on a fresh instance
call_convert_files_to_parquet ==
  /\ pc \in {"idle", "done", "failed"}
  /\ calls < MaxCalls
  /\ calls' = calls + 1
  /\ caller' = "convert_files_to_parquet"
  /\ failed_download_urls' = <<>>
  /\ pc' = "convert_files_to_parquet"
  /\ month_interval' = <<>>
  /\ index' = 0
  /\ download_url' = NoUrl
  /\ download_urls' = <<>>
  /\ data' = NoData
  /\ pending' = {}
  /\ file_path' = <<>>
  /\ artifact' = <<>>
  /\ raised' = "none"
  /\ counted' = 0
  /\ attempts' = 0
  /\ qwrites' = 0
  /\ parse_failures' = 0
  /\ slept' = 0
  /\ quarantined' = NoData
  /\ received' = NoData
  /\ parquet_before' = parquet
  /\ n_convert' = 0
  /\ n_write_metadata' = 0
  /\ exists_at_check' = "unknown"
  /\ UNCHANGED << config, filesystem >>

Next ==
  \/ initiate_data_ingestion
  \/ download_monthly_files
  \/ download_data
  \/ retry_download_data
  \/ check_download_dir
  \/ convert_files_to_parquet
  \/ merge_file
  \/ write_metadata
  \/ call_convert_files_to_parquet

Spec == Init /\ [][Next]_vars

\* ---------------------------------------------------------------- claims
InRun == caller = "initiate_data_ingestion"
Fetching == pc \in {"download_data", "retry_download_data"}
\* The window of loop index i.
Window(i) == WindowAt(month_interval, n_month_interval, i)

\* The descriptors of the window of loop index i in failed_download_urls.
FailedFor(i) ==
  SelectSeq(failed_download_urls,
            LAMBDA d : d.url = Url(Window(i)) /\ d.file_path = FilePath(Window(i)))

\* The fetch loop has built and downloaded every window of the range.
AllWindowsFetched ==
  /\ ~Fetching
  /\ Len(download_urls) = LoopLength(month_interval, n_month_interval)

\* The download/retry chain of window counted is over.
ChainEnded == counted > 0 /\ ~(Fetching /\ index = counted)

\* C1: a window that exhausted its retry budget does not abort the run:
\* once a descriptor is in failed_download_urls, the call ends only after
\* the chains of all windows have run and the merge stage was entered.
C1_FailedWindowDoesNotAbort ==
  (InRun /\ failed_download_urls # <<>> /\ pc \in {"done", "failed"})
    => (AllWindowsFetched /\ exists_at_check # "unknown" /\ n_convert > 0)

\* C2: a transport failure of the HTTP GET goes through the retry path, so
\* no call ever ends with the transport error raised to its caller.
C2_TransportFailureIsRetried == raised # "ConnectionError"

\* C3: a window whose every attempt failed to parse was attempted exactly
\* n_retry + 1 times, has no shard file, and has exactly one descriptor in
\* failed_download_urls, with n_retry = 0.
C3_ParseFailuresExhaustBudget ==
  (InRun /\ ChainEnded /\ parse_failures = attempts)
    => /\ attempts = n_retry + 1
       /\ FileName(Window(counted)) \notin DOMAIN download_files
       /\ Len(FailedFor(counted)) = 1
       /\ FailedFor(counted)[1].n_retry = 0

\* A window whose chain ended with its descriptor in the failed-set.
Exhausted == InRun /\ ChainEnded /\ Len(FailedFor(counted)) > 0

\* C4 as stated: a window whose every attempt failed has one quarantine
\* write per failed attempt, n_retry + 1 in all.
C4_QuarantineWritePerAttempt == Exhausted => qwrites = n_retry + 1

\* C4 amended: a window whose every attempt failed has one quarantine write
\* per retry, n_retry in all (none when n_retry = 0: the last failure is
\* only recorded in the failed-set), all to failed_dir + base name of the
\* shard path, which holds the body of the last of these writes.
C4_QuarantineWritePerRetry ==
  /\ Exhausted =>
       /\ qwrites = n_retry
       /\ attempts = n_retry + 1
  /\ (InRun /\ counted > 0 /\ qwrites > 0) =>
       /\ FileName(Window(counted)) \in DOMAIN failed_files
       /\ failed_files[FileName(Window(counted))] = quarantined

C4_Witness == Exhausted /\ n_retry = 2 /\ qwrites = 2 /\ quarantined.digits = <<>>

\* C5: the chain of one window makes at most n_retry + 1 attempts; every
\* descriptor downloaded or stored as failed has 0 <= n_retry <= budget;
\* each retry passes a budget exactly one lower; a window in the failed-set
\* is not attempted again.
C5_RetryChainBounded ==
  /\ \A k \in 1..Len(failed_download_urls) :
       failed_download_urls[k].n_retry \in 0..n_retry
  /\ counted > 0 => attempts <= n_retry + 1
  /\ Fetching =>
       /\ download_url.n_retry \in 0..n_retry
       /\ Len(FailedFor(index)) = 0
       /\ counted # index => (pc = "download_data" /\ download_url.n_retry = n_retry)
       /\ (counted = index /\ pc = "download_data") => download_url.n_retry = n_retry - attempts
       /\ (counted = index /\ pc = "retry_download_data") =>
            download_url.n_retry = n_retry - (attempts - 1)

C5_Witness == Exhausted /\ n_retry = MaxRetry /\ attempts = MaxRetry + 1

\* C6: in a run the merge starts only after the chains of all windows have
\* finished, no download happens once it has started, and write_metadata
\* runs only after convert_files_to_parquet has returned its path.
C6_StagesInOrder ==
  InRun =>
    /\ (pc \in {"convert_files_to_parquet", "merge"} \/ n_convert > 0) =>
         (AllWindowsFetched /\ exists_at_check = "yes")
    /\ Fetching => (n_convert = 0 /\ n_write_metadata = 0 /\ pending = {})
    /\ (pc = "write_metadata" \/ n_write_metadata > 0) =>
         (n_convert = 1 /\ pending = {} /\ file_path = os_path_join("data_dir", "file_name"))

C6_Witness ==
  InRun /\ pc = "done" /\ n_write_metadata = 1 /\ Len(download_urls) = 2 /\ parquet > 0

\* C7: the merge stage is entered exactly when download_dir exists after the
\* fetching stage; when it does not, neither convert_files_to_parquet nor
\* write_metadata runs and the run is Done with the artifact
\* data_dir/file_name.
C7_MergeIffDownloadDir ==
  (InRun /\ exists_at_check # "unknown") =>
    /\ (pc = "convert_files_to_parquet" \/ n_convert > 0) <=> exists_at_check = "yes"
    /\ exists_at_check = "yes" => download_dir
    /\ exists_at_check = "no" =>
         /\ ~download_dir
         /\ pc = "done" /\ raised = "none"
         /\ artifact = [data_file_path |-> os_path_join("data_dir", "file_name")]
         /\ n_convert = 0 /\ n_write_metadata = 0

C7_Witness == InRun /\ exists_at_check = "no" /\ pc = "done"

\* C8 as stated: convert_files_to_parquet without a download directory
\* returns data_dir/file_name and leaves the whole filesystem unchanged.
C8_NoShardDirNoEffect ==
  [][(pc = "convert_files_to_parquet" /\ ~download_dir) =>
       /\ file_path' = os_path_join("data_dir", "file_name")
       /\ filesystem' = filesystem]_vars

\* C8 amended: convert_files_to_parquet without a download directory
\* returns data_dir/file_name, raises nothing, creates data_dir when it is
\* missing, and changes nothing else of the filesystem.
C8_NoShardDirOnlyDataDir ==
  [][(pc = "convert_files_to_parquet" /\ ~download_dir) =>
       /\ file_path' = os_path_join("data_dir", "file_name")
       /\ pc' = "idle" /\ raised' = "none"
       /\ data_dir'
       /\ UNCHANGED << download_dir, download_files, failed_files, parquet, metadata >>]_vars

C8_Witness ==
  /\ caller = "convert_files_to_parquet" /\ pc = "idle" /\ n_convert = 1
  /\ ~download_dir /\ data_dir /\ file_path = os_path_join("data_dir", "file_name")

\* C9: for a month interval n > 0 the windows built by download_monthly_files
\* are in chronological order, each with from < to, consecutive windows are
\* contiguous and no two windows overlap in their interior.
C9_WindowsOrderedContiguous ==
  (InRun /\ n_month_interval > 0) =>
    \A k \in 1..Len(download_urls) :
      LET u == download_urls[k].url
      IN /\ DateLT(u.date_received_min, u.date_received_max)
         /\ k > 1 => download_urls[k - 1].url.date_received_max = u.date_received_min
         /\ \A j \in 1..(k - 1) :
              /\ DateLT(download_urls[j].url.date_received_min, u.date_received_min)
              /\ DateLE(download_urls[j].url.date_received_max, u.date_received_min)

C9_Witness == InRun /\ n_month_interval = 2 /\ Len(download_urls) = 2

\* C10: download_monthly_files with a month interval <= 0 fails with an
\* error; it never returns normally.
C10_NonPositiveIntervalFails ==
  (InRun /\ n_month_interval <= 0 /\ pc # "download_monthly_files")
    => (pc = "failed" /\ raised = "ValueError" /\ download_urls = <<>>)

\* ---- C11: six month ends, interval three
SixMonthEnds ==
  /\ InRun
  /\ from_date = <<2021, 1, 1>> /\ to_date = <<2021, 7, 1>>
  /\ n_month_interval = 3
  /\ pc # "download_monthly_files"

\* C11 as stated: with the six month-end boundaries of 2021-01-01 to
\* 2021-07-01 and interval 3 there is exactly one window, from the 3rd
\* boundary to the 6th.
C11_ThirdToSixth ==
  SixMonthEnds =>
    /\ Len(month_interval) = 6
    /\ Len(download_urls) = 1
    /\ download_urls[1].url.date_received_min = MonthEnds[3]
    /\ download_urls[1].url.date_received_max = MonthEnds[6]

\* C11 amended: with the six month-end boundaries of 2021-01-01 to
\* 2021-07-01 and interval 3 there is exactly one window, and it goes from
\* the 1st boundary (2021-01-31) to the 4th (2021-04-30); the 5th and 6th
\* boundaries are in no window.
C11_FirstToFourth ==
  SixMonthEnds =>
    /\ month_interval = SubSeq(MonthEnds, 1, 6)
    /\ LoopLength(month_interval, n_month_interval) = 1
    /\ Len(download_urls) = 1
    /\ download_urls[1].url.date_received_min = <<2021, 1, 31>>
    /\ download_urls[1].url.date_received_max = <<2021, 4, 30>>
    /\ download_urls[1].file_path =
         os_path_join("download_dir", << "file_name", <<2021, 1, 31>>, <<2021, 4, 30>> >>)

C11_Witness == SixMonthEnds /\ pc = "done" /\ Len(download_urls) = 1 /\ parquet > 0

\* ---- C12: a first attempt answered with a JSON array
\* The payloads of the elements that have the "_source" field, in order.
RECURSIVE Sources(_)
Sources(elems) ==
  IF elems = <<>> THEN <<>>
  ELSE IF Head(elems).key = "_source"
       THEN << Head(elems).val >> \o Sources(Tail(elems))
       ELSE Sources(Tail(elems))

FirstAttemptList == InRun /\ counted > 0 /\ attempts = 1 /\ received.kind = "list"

\* C12: when the first attempt of a window is answered with a JSON array,
\* the shard file holds exactly the "_source" payloads of the array in
\* their order (elements without the field dropped, the empty list
\* included), whatever the file held before; the descriptor is not in the
\* failed-set and nothing of the retry path has run.
C12_FirstAttemptWritesSources ==
  FirstAttemptList =>
    /\ ChainEnded
    /\ pc # "retry_download_data"
    /\ FileName(Window(counted)) \in DOMAIN download_files
    /\ download_files[FileName(Window(counted))] = Sources(received.elems)
    /\ Len(FailedFor(counted)) = 0
    /\ qwrites = 0 /\ slept = 0 /\ parse_failures = 0
    /\ FileName(Window(counted)) \notin DOMAIN failed_files \/ calls > 1

\* A second run overwrites the shard of a window with a shorter list.
C12_Witness ==
  /\ FirstAttemptList
  /\ calls = 2
  /\ parquet_before = 2
  /\ LoopLength(month_interval, n_month_interval) = 1
  /\ Len(received.elems) = 1
  /\ download_files[FileName(Window(counted))] = <<>>

\* ---- C13: the merge is additive
\* Rows held by the shard files named in the set names.
RECURSIVE SumRows(_)
SumRows(names) ==
  IF names = {} THEN 0
  ELSE LET f == CHOOSE x \in names : TRUE
       IN Len(download_files[f]) + SumRows(names \ {f})

Shards == DOMAIN download_files

\* convert_files_to_parquet of the current call has returned.
MergeReturned ==
  /\ n_convert = 1
  /\ file_path = os_path_join("data_dir", "file_name")
  /\ pc \notin {"convert_files_to_parquet", "merge"}

\* C13: a merge that returns has added the rows of every shard to the
\* rows the output held before: into an empty output the row count is the
\* sum of the shards' rows, and a second merge over the same unchanged
\* shard directory makes it twice that sum.
C13_MergeIsAdditive ==
  /\ MergeReturned => parquet = parquet_before + SumRows(Shards)
  /\ (MergeReturned /\ parquet_before = 0) => parquet = SumRows(Shards)
  /\ (MergeReturned /\ calls = 2 /\ caller = "convert_files_to_parquet" /\ Len(metadata) = 1)
       => parquet = 2 * SumRows(Shards)

C13_Witness ==
  /\ MergeReturned
  /\ calls = 2 /\ caller = "convert_files_to_parquet" /\ Len(metadata) = 1
  /\ Cardinality(Shards) = 2
  /\ SumRows(Shards) = 4
  /\ parquet = 8

\* ---- C14: a shard that cannot be read or appended
MergeFailed == InRun /\ raised = "AnalysisException"

\* C14: when reading or appending a shard fails, the run fails with that
\* error; the rows of the shards merged before it stay in the output, the
\* failing shard and the later ones are not processed, write_metadata is
\* not invoked and no artifact is returned.
C14_MergeFailureStopsRun ==
  MergeFailed =>
    /\ pc = "failed"
    /\ n_convert = 1
    /\ pending # {} /\ pending \subseteq Shards
    /\ parquet = parquet_before + SumRows(Shards \ pending)
    /\ file_path = <<>>
    /\ n_write_metadata = 0
    /\ artifact = <<>>

C14_Witness ==
  /\ MergeFailed
  /\ Cardinality(Shards) = 2 /\ Cardinality(pending) = 1
  /\ parquet = parquet_before + 2

\* ---- C15: a metadata write that fails
MetadataFailed == InRun /\ raised = "IOError"

\* C15: when the metadata write fails after the merge, the run fails with
\* that error as the cause, no artifact is returned and the merged output
\* stays in place; every finished run has exactly one of an artifact and
\* a raised error, and an unfinished run has neither.
C15_MetadataFailureFailsRun ==
  /\ MetadataFailed =>
       /\ pc = "failed"
       /\ artifact = <<>>
       /\ n_write_metadata = 1
       /\ MergeReturned
       /\ data_dir
       /\ parquet = parquet_before + SumRows(Shards)
  /\ (InRun /\ pc = "done") => (artifact # <<>> /\ raised = "none")
  /\ (InRun /\ pc = "failed") => (artifact = <<>> /\ raised # "none")
  /\ (InRun /\ pc \notin {"done", "failed"}) => (artifact = <<>> /\ raised = "none")

C15_Witness == MetadataFailed /\ pc = "failed" /\ parquet > parquet_before /\ artifact = <<>>

\* ---- C16: the metadata record of a run
\* C16: a run that ends Done after entering the merge has invoked the
\* metadata write exactly once, with the configured from_date and to_date
\* and the path the merge returned, which is the artifact's data_file_path;
\* a run that skips the merge has not invoked it.
C16_MetadataWrittenOnce ==
  (InRun /\ pc = "done") =>
    IF exists_at_check = "yes"
    THEN /\ n_convert = 1
         /\ n_write_metadata = 1
         /\ metadata # <<>>
         /\ metadata[Len(metadata)] =
              [from_date |-> from_date, to_date |-> to_date, data_file_path |-> file_path]
         /\ file_path = artifact.data_file_path
         /\ Len(metadata) <= calls
    ELSE /\ exists_at_check = "no"
         /\ n_convert = 0
         /\ n_write_metadata = 0
         /\ Len(metadata) < calls

C16_Witness ==
  /\ InRun /\ pc = "done" /\ exists_at_check = "yes"
  /\ calls = 2 /\ Len(metadata) = 2
  /\ metadata[2].data_file_path = artifact.data_file_path

\* ---- C17: the retry handler with a spent budget
\* C17: retry_download_data entered with n_retry = 0 appends the
\* descriptor to failed_download_urls and returns: it does not sleep, does
\* not write the quarantine file, does not invoke download_data for the
\* descriptor again and raises nothing; the loop goes on with the next
\* window or ends.
C17_SpentBudgetOnlyRecords ==
  [][(pc = "retry_download_data" /\ download_url.n_retry = 0) =>
       /\ failed_download_urls' = Append(failed_download_urls, download_url)
       /\ UNCHANGED << slept, qwrites, quarantined, attempts, filesystem >>
       /\ raised' = "none"
       /\ pc' \in {"download_data", "check"}
       /\ pc' = "download_data" =>
            /\ index' = index + n_month_interval
            /\ download_url'.file_path # download_url.file_path
            /\ download_url'.n_retry = n_retry]_vars

C17_Witness ==
  /\ Exhausted
  /\ n_retry = 0 /\ attempts = 1
  /\ qwrites = 0 /\ slept = 0 /\ failed_files = <<>>
  /\ pc = "download_data" /\ index = counted + n_month_interval

\* ---- C18: the number of windows
Boundaries == Len(month_interval)
Planned == IF Boundaries < n_month_interval + 1 THEN 0
           ELSE (Boundaries - 1) \div n_month_interval

\* C18: for B boundaries and interval n > 0 the fetch plans no window when
\* B < n + 1 and otherwise floor((B - 1) / n) windows; the k-th window goes
\* from boundary (k - 1) * n to boundary k * n (counted from 0), so the
\* boundaries after the last multiple of n are in no window; the planning
\* itself raises nothing.
C18_WindowCount ==
  (InRun /\ n_month_interval > 0 /\ pc # "download_monthly_files") =>
    /\ Len(download_urls) <= Planned
    /\ \A k \in 1..Len(download_urls) :
         /\ download_urls[k].url.date_received_min = month_interval[(k - 1) * n_month_interval + 1]
         /\ download_urls[k].url.date_received_max = month_interval[k * n_month_interval + 1]
         /\ k * n_month_interval + 1 <= Boundaries
    /\ (~Fetching /\ raised \notin {"ConnectionError", "UnicodeDecodeError"}) =>
         Len(download_urls) = Planned
    /\ Planned = 0 =>
         /\ ~Fetching /\ download_urls = <<>>
         /\ raised \notin {"ValueError", "ConnectionError", "UnicodeDecodeError"}

\* Four boundaries, interval two: one window, the fourth boundary unused.
C18_Witness ==
  /\ InRun /\ pc = "done"
  /\ Boundaries = 4 /\ n_month_interval = 2
  /\ Len(download_urls) = 1
  /\ download_urls[1].url.date_received_max = month_interval[3]

\* No window for three boundaries and interval three.
C18_WitnessNone ==
  /\ InRun /\ pc = "done"
  /\ Boundaries = 3 /\ n_month_interval = 3
  /\ download_urls = <<>>

\* ---- C19: every planned window is fetched or failed
FetchCompleted == InRun /\ exists_at_check # "unknown"
FailedCount(d) == Len(SelectSeq(failed_download_urls, LAMBDA x : x.file_path = d.file_path))
Fetched(d) == Basename(d.file_path) \in Shards /\ FailedCount(d) = 0
GaveUp(d) == Basename(d.file_path) \notin Shards /\ FailedCount(d) = 1

\* C19: when the fetching stage completes without an exception, every
\* planned window has either its shard file and no descriptor in the
\* failed-set, or no shard file (also when an earlier run had left one)
\* and exactly one descriptor in the failed-set; the merge reads the
\* shards of the fetched windows only.
C19_FetchedOrFailed ==
  FetchCompleted =>
    /\ Len(download_urls) = LoopLength(month_interval, n_month_interval)
    /\ \A k \in 1..Len(download_urls) :
         /\ Fetched(download_urls[k]) \/ GaveUp(download_urls[k])
         /\ ~(Fetched(download_urls[k]) /\ GaveUp(download_urls[k]))
    /\ \A k \in 1..Len(failed_download_urls) :
         \E j \in 1..Len(download_urls) :
           /\ download_urls[j].url = failed_download_urls[k].url
           /\ download_urls[j].file_path = failed_download_urls[k].file_path
    /\ \A f \in Shards :
         \E k \in 1..Len(download_urls) :
           Basename(download_urls[k].file_path) = f /\ Fetched(download_urls[k])
    /\ pending \subseteq Shards

\* The only window fails in a second run although the first run had
\* written and merged its shard.
C19_Witness ==
  /\ FetchCompleted /\ pc = "done"
  /\ calls = 2 /\ parquet > 0
  /\ Len(download_urls) = 1 /\ GaveUp(download_urls[1])
  /\ Shards = {}

\* ---- C20: the shard directory after a fetch that planned a window
AllGaveUp ==
  /\ Len(download_urls) >= 1
  /\ \A k \in 1..Len(download_urls) : GaveUp(download_urls[k])

\* C20: once a window has been planned and its download started the shard
\* directory exists, whatever the outcome, so a run whose fetch completes
\* enters the merge; a run in which every planned window exhausts its
\* retries merges nothing, invokes the metadata write and, unless that
\* write fails, records the full [from_date, to_date] range and returns
\* the artifact.
C20_AllFailedStillMerges ==
  /\ (InRun /\ download_urls # <<>> /\ (counted > 0 \/ ~Fetching)) => download_dir
  /\ (FetchCompleted /\ download_urls # <<>>) =>
       /\ exists_at_check = "yes"
       /\ pc = "convert_files_to_parquet" \/ n_convert = 1
  /\ (FetchCompleted /\ AllGaveUp /\ n_convert = 1) =>
       /\ Shards = {}
       /\ parquet = parquet_before
       /\ pc \in {"write_metadata", "done", "failed"}
       /\ pc = "failed" => (raised = "IOError" /\ n_write_metadata = 1)
       /\ pc = "done" =>
            /\ n_write_metadata = 1
            /\ metadata[Len(metadata)] =
                 [from_date |-> from_date, to_date |-> to_date,
                  data_file_path |-> os_path_join("data_dir", "file_name")]
            /\ artifact = [data_file_path |-> os_path_join("data_dir", "file_name")]

C20_Witness ==
  /\ FetchCompleted /\ AllGaveUp /\ pc = "done"
  /\ Len(download_urls) = 2 /\ Len(failed_download_urls) = 2
  /\ calls = 1 /\ Len(metadata) = 1
  /\ artifact # <<>>

====
